---- MODULE Spec2Model ----
(***************************************************************************)
(* Model of server.js: the start-up sequence of the process (credential   *)
(* check, AI client construction, knowledge-base load, listen) and the    *)
(* POST /generate handler, cut at its two await points.                    *)
(*                                                                         *)
(* Strings that are only compared are TLA+ strings; strings that are      *)
(* built by concatenation (the outbound message, the serialized knowledge *)
(* base) are sequences of chunks, so that "contains" can be checked.      *)
(*                                                                         *)
(* Line 21 evaluates `new OpenAI(...)`, but server.js imports only         *)
(* GoogleGenerativeAI and never declares OpenAI.  The name is therefore    *)
(* resolved against the global object when the line runs; openAIBound is   *)
(* that fact about the run.  Under plain `node server.js` it is FALSE and  *)
(* the process ends at line 21 with a ReferenceError; the handler is       *)
(* reachable only in runs where something outside server.js (a preload, a  *)
(* test harness) has bound the name.                                       *)
(*                                                                         *)
(* req.body is the object express.json() produced; prompt[r] is its        *)
(* prompt field.  Each step of the external call may throw or reject.      *)
(***************************************************************************)
EXTENDS Integers, Sequences, FiniteSets, TLC

\* ------------------------------------------------------------------ bounds
\* number of requests the clients post during one run
MaxRequests == 2

\* ------------------------------------------------------- program constants
PORT == 3000
MODEL_NAME == "gpt-4o"
systemPrompt == "You are an expert SimPhy script generator. ... --- END OF EXAMPLES ---"

generationConfig ==
  [temperature |-> "0.2", topK |-> 1, topP |-> 1, maxOutputTokens |-> 4096]

Requests == 1..MaxRequests

\* ------------------------------------------------------------- environment
\* process.env.OPENAI_API_KEY after dotenv: unset, set to "", or set
Unset == "<unset>"
EnvKeys == {Unset, "", "sk-test"}

\* contents of knowledge_base.json: no file, or the file's text as chunks
Missing == <<"ENOENT">>
KBFiles ==
  { Missing,
    <<>>,
    <<"{", "\"World\"", ":">>,
    <<"{", "}">>,
    <<" ", "{", "\"World\"", " ", ":", "\"addDisc\"", "}", " ">> }

\* values of req.body.prompt: a JSON value, or undefined when the field is absent
Undefined == [t |-> "undefined", v |-> ""]
Str(s) == [t |-> "string", v |-> s]
Prompts ==
  { Undefined,
    [t |-> "null", v |-> ""],
    Str(""),
    Str("a ball falling under gravity"),
    Str("a pendulum on a moving cart"),
    [t |-> "number", v |-> "42"] }

\* texts the external service can produce
Texts == {"World.clearAll();", "  print(1);  "}

\* --------------------------------------------------------------- the state
VARIABLES
  apiKey,         \* environment: OPENAI_API_KEY
  openAIBound,    \* environment: is the free identifier OpenAI bound in global scope
  kbFile,         \* environment: knowledge_base.json
  pc,             \* position of the main script
  genAI,          \* the module-level client
  knowledgeBase,  \* the module-level parsed knowledge base
  listenPort,     \* port the process accepts connections on, 0 when none
  status,         \* per request: position of its handler invocation
  prompt,         \* per request: req.body.prompt
  calls,          \* per request: the outbound calls made, in order
  upstream,       \* per request: the text the service produced for its call
  responses,      \* per request: the HTTP responses sent, in order
  failed          \* per request: the step of the try block that threw, or "none"

env == <<apiKey, openAIBound, kbFile>>
shared == <<pc, genAI, knowledgeBase, listenPort>>
perRequest == <<status, prompt, calls, upstream, responses, failed>>
vars == <<apiKey, openAIBound, kbFile, pc, genAI, knowledgeBase, listenPort,
          status, prompt, calls, upstream, responses, failed>>

\* the value of a module-level binding not yet assigned
NoValue == [kind |-> "undefined", members |-> <<>>]
NoText == "<none>"

\* ------------------------------------------------------------ pure helpers
\* JavaScript's !x on a JSON value or undefined
NullishOnly(p) == p.t \in {"undefined", "null"}
Falsy(p) ==
  \/ p.t \in {"undefined", "null"}
  \/ p.t = "string" /\ p.v = ""
  \/ p.t = "number" /\ p.v \in {"0", "NaN"}
  \/ p.t = "boolean" /\ p.v = "false"

\* the string a template literal substitutes for ${p}
ToStr(p) ==
  CASE p.t = "string" -> p.v
    [] p.t = "number" -> p.v
    [] p.t = "boolean" -> p.v
    [] p.t = "array" -> ""
    [] p.t = "object" -> "[object Object]"
    [] p.t = "null" -> "null"
    [] OTHER -> "undefined"

IsWhitespace(c) == c = " "
IsStringToken(c) == c \notin {"{", "}", ":", " "}

RECURSIVE StripWhitespace(_)
StripWhitespace(s) ==
  IF s = <<>> THEN <<>>
  ELSE IF IsWhitespace(Head(s)) THEN StripWhitespace(Tail(s))
       ELSE <<Head(s)>> \o StripWhitespace(Tail(s))

SyntaxError == [kind |-> "SyntaxError", members |-> <<>>]

\* JSON.parse on the file's text: whitespace between tokens is insignificant
JSONParse(raw) ==
  LET toks == StripWhitespace(raw) IN
  IF toks = <<"{", "}">> THEN [kind |-> "object", members |-> <<>>]
  ELSE IF /\ Len(toks) = 5
          /\ toks[1] = "{" /\ IsStringToken(toks[2]) /\ toks[3] = ":"
          /\ IsStringToken(toks[4]) /\ toks[5] = "}"
       THEN [kind |-> "object", members |-> <<toks[2], toks[4]>>]
       ELSE SyntaxError

\* JSON.stringify(value, null, 2)
JSONStringify(value) ==
  IF value.kind = "undefined" THEN <<"undefined">>
  ELSE IF value.members = <<>> THEN <<"{}">>
  ELSE <<"{", "\n  ", value.members[1], ": ", value.members[2], "\n", "}">>

Contains(seq, chunk) == \E i \in 1..Len(seq) : seq[i] = chunk

KBHeader == "--- HERE IS THE KNOWLEDGE BASE. USE ONLY THESE FUNCTIONS AND CONCEPTS:"
RequestHeader == "--- HERE IS THE USER'S REQUEST: \""
Trailer == "\" --- GENERATE THE SCRIPT:"

\* the template literal of the handler
augmentedPromptNoKB(kb, userPrompt) ==
  <<RequestHeader, ToStr(userPrompt), Trailer>>
augmentedPrompt(kb, userPrompt) ==
  <<KBHeader>> \o JSONStringify(kb) \o <<RequestHeader, ToStr(userPrompt), Trailer>>

\* every message sent so far by any request
RECURSIVE MessagesOf(_)
MessagesOf(n) ==
  IF n = 0 THEN <<>>
  ELSE MessagesOf(n - 1)
       \o (IF calls[n] = <<>> THEN <<>>
           ELSE <<[role |-> "user", text |-> calls[n][1].message]>>)

\* the history given to model.startChat
ChatHistoryShared(r) ==
  <<[role |-> "user", text |-> <<systemPrompt>>]>> \o MessagesOf(MaxRequests)
ChatHistory(r) == <<[role |-> "user", text |-> <<systemPrompt>>]>>

\* what one chat.sendMessage call hands to the external service
Payload(r) ==
  [model |-> MODEL_NAME,
   generationConfig |-> generationConfig,
   history |-> ChatHistory(r),
   message |-> augmentedPrompt(knowledgeBase, prompt[r])]

Trim(t) == IF t = "  print(1);  " THEN "print(1);" ELSE t

BadRequest == [status |-> 400, body |-> [error |-> "Prompt is required"]]
ServerError == [status |-> 500, body |-> [error |-> "Failed to generate script"]]
SuccessTrimmed(t) == [status |-> 200, body |-> [script |-> Trim(t)]]
Success(t) == [status |-> 200, body |-> [script |-> t]]

\* ------------------------------------------------------------------- Init
Init ==
  /\ apiKey \in EnvKeys
  /\ openAIBound \in BOOLEAN
  /\ kbFile \in KBFiles
  /\ pc = "check_key"
  /\ genAI = NoValue
  /\ knowledgeBase = NoValue
  /\ listenPort = 0
  /\ status = [r \in Requests |-> "idle"]
  /\ prompt = [r \in Requests |-> Undefined]
  /\ calls = [r \in Requests |-> <<>>]
  /\ upstream = [r \in Requests |-> NoText]
  /\ responses = [r \in Requests |-> <<>>]
  /\ failed = [r \in Requests |-> "none"]

\* ----------------------------------------------------------------- startup
\* if (!API_KEY) throw: an uncaught exception at module level ends the process
CheckApiKey ==
  /\ pc = "check_key"
  /\ pc' = IF apiKey \in {Unset, ""} THEN "terminated" ELSE "construct_client"
  /\ UNCHANGED <<env, genAI, knowledgeBase, listenPort, perRequest>>

\* new OpenAI({ apiKey }): OpenAI is neither imported nor declared in server.js,
\* so the name is looked up in global scope; unbound, it is a ReferenceError
ConstructClient ==
  /\ pc = "construct_client"
  /\ IF openAIBound
     THEN /\ genAI' = [kind |-> "client", apiKey |-> apiKey]
          /\ pc' = "load_kb"
     ELSE /\ genAI' = genAI
          /\ pc' = "terminated"
  /\ UNCHANGED <<env, knowledgeBase, listenPort, perRequest>>

KBReadable == kbFile # Missing /\ JSONParse(kbFile) # SyntaxError

LoadKnowledgeBaseNoExit ==
  /\ pc = "load_kb"
  /\ knowledgeBase' = IF KBReadable THEN JSONParse(kbFile) ELSE knowledgeBase
  /\ pc' = "listen"
  /\ UNCHANGED <<env, genAI, listenPort, perRequest>>
\* try { readFileSync; JSON.parse } catch { process.exit(1) }
LoadKnowledgeBase ==
  /\ pc = "load_kb"
  /\ IF KBReadable
     THEN /\ knowledgeBase' = JSONParse(kbFile)
          /\ pc' = "listen"
     ELSE /\ knowledgeBase' = knowledgeBase
          /\ pc' = "terminated"
  /\ UNCHANGED <<env, genAI, listenPort, perRequest>>

\* app.post('/generate', ...) and app.listen(PORT, ...)
Listen ==
  /\ pc = "listen"
  /\ pc' = "listening"
  /\ listenPort' = PORT
  /\ UNCHANGED <<env, genAI, knowledgeBase, perRequest>>

\* ---------------------------------------------------------------- requests
\* a client posts a request; ids are given in arrival order
Post(r) ==
  /\ pc = "listening" /\ listenPort = PORT
  /\ status[r] = "idle"
  /\ \A q \in Requests : q < r => status[q] # "idle"
  /\ \E p \in Prompts : prompt' = [prompt EXCEPT ![r] = p]
  /\ status' = [status EXCEPT ![r] = "posted"]
  /\ UNCHANGED <<env, shared, calls, upstream, responses, failed>>

\* the catch block: log, respond 500
CatchRethrow(r, step) ==
  /\ failed' = [failed EXCEPT ![r] = step]
  /\ responses' = responses
  /\ status' = [status EXCEPT ![r] = "done"]
  /\ pc' = "terminated"
  /\ listenPort' = 0
Catch(r, step) ==
  /\ failed' = [failed EXCEPT ![r] = step]
  /\ responses' = [responses EXCEPT ![r] = Append(@, ServerError)]
  /\ status' = [status EXCEPT ![r] = "done"]
  /\ pc' = pc
  /\ listenPort' = listenPort

\* the handler up to its first await: prompt check, getGenerativeModel,
\* augmentedPrompt, startChat, the call of chat.sendMessage
GenerateSteps(r) ==
  /\ pc = "listening"
  /\ status[r] = "posted"
  /\ IF Falsy(prompt[r])
     THEN /\ responses' = [responses EXCEPT ![r] = Append(@, BadRequest)]
          /\ status' = [status EXCEPT ![r] = "done"]
          /\ UNCHANGED <<calls, failed, pc, listenPort>>
     ELSE \/ /\ calls' = [calls EXCEPT ![r] = Append(@, Payload(r))]
             /\ status' = [status EXCEPT ![r] = "await_sendMessage"]
             /\ UNCHANGED <<responses, failed, pc, listenPort>>
          \/ /\ \E step \in {"getGenerativeModel", "startChat"} : Catch(r, step)
             /\ UNCHANGED calls
  /\ UNCHANGED <<prompt, upstream>>

GenerateHandlerWritesKB(r) ==
  /\ GenerateSteps(r)
  /\ knowledgeBase' = [knowledgeBase EXCEPT !.members = <<"lastPrompt", ToStr(prompt[r])>>]
  /\ UNCHANGED <<env, genAI>>
GenerateHandler(r) ==
  /\ GenerateSteps(r)
  /\ UNCHANGED <<env, genAI, knowledgeBase>>

\* await chat.sendMessage(...) settles: the service produced a text, or the
\* promise rejected
SendMessageSettles(r) ==
  /\ pc = "listening"
  /\ status[r] = "await_sendMessage"
  /\ \/ /\ \E t \in Texts : upstream' = [upstream EXCEPT ![r] = t]
        /\ status' = [status EXCEPT ![r] = "await_response"]
        /\ UNCHANGED <<responses, failed, pc, listenPort>>
     \/ /\ Catch(r, "sendMessage")
        /\ UNCHANGED upstream
  /\ UNCHANGED <<env, genAI, knowledgeBase, prompt, calls>>

\* await result.response settles, then response.text() and res.json
ResponseSettlesSilent(r) ==
  /\ pc = "listening"
  /\ status[r] = "await_response"
  /\ \/ /\ responses' = [responses EXCEPT ![r] = Append(@, Success(upstream[r]))]
        /\ status' = [status EXCEPT ![r] = "done"]
        /\ UNCHANGED <<failed, pc, listenPort>>
     \/ /\ failed' = [failed EXCEPT ![r] = "response"]
        /\ status' = [status EXCEPT ![r] = "done"]
        /\ UNCHANGED <<responses, pc, listenPort>>
  /\ UNCHANGED <<env, genAI, knowledgeBase, prompt, calls, upstream>>
ResponseSettles(r) ==
  /\ pc = "listening"
  /\ status[r] = "await_response"
  /\ \/ /\ responses' = [responses EXCEPT ![r] = Append(@, Success(upstream[r]))]
        /\ status' = [status EXCEPT ![r] = "done"]
        /\ UNCHANGED <<failed, pc, listenPort>>
     \/ \E step \in {"response", "text"} : Catch(r, step)
  /\ UNCHANGED <<env, genAI, knowledgeBase, prompt, calls, upstream>>

Next ==
  \/ CheckApiKey
  \/ ConstructClient
  \/ LoadKnowledgeBase
  \/ Listen
  \/ \E r \in Requests : Post(r)
  \/ \E r \in Requests : GenerateHandler(r)
  \/ \E r \in Requests : SendMessageSettles(r)
  \/ \E r \in Requests : ResponseSettles(r)

Spec == Init /\ [][Next]_vars

\* the event loop runs every ready continuation, and every awaited upstream
\* promise settles
FairSpec ==
  /\ Spec
  /\ \A r \in Requests :
       /\ WF_vars(GenerateHandler(r))
       /\ WF_vars(SendMessageSettles(r))
       /\ WF_vars(ResponseSettles(r))

TypeOK ==
  /\ apiKey \in EnvKeys
  /\ openAIBound \in BOOLEAN
  /\ kbFile \in KBFiles
  /\ pc \in {"check_key", "construct_client", "load_kb", "listen", "listening", "terminated"}
  /\ listenPort \in {0, PORT}
  /\ \A r \in Requests :
       /\ status[r] \in {"idle", "posted", "await_sendMessage", "await_response", "done"}
       /\ prompt[r] \in Prompts
       /\ upstream[r] \in Texts \cup {NoText}

\* ------------------------------------------------------------- properties
Responded(r, code) == Len(responses[r]) >= 1 /\ responses[r][1].status = code

\* C1: a request whose prompt is absent or the empty string is answered with
\* 400 { error: 'Prompt is required' } and no call to the external service
\* is ever made for it.
C1_MissingPromptRejected ==
  \A r \in Requests :
    (status[r] \notin {"idle", "posted"}
       /\ prompt[r] \in {[t |-> "undefined", v |-> ""], [t |-> "string", v |-> ""]})
    => /\ responses[r] = <<[status |-> 400, body |-> [error |-> "Prompt is required"]]>>
       /\ calls[r] = <<>>
       /\ upstream[r] = NoText
       /\ status[r] = "done"

C1_Witness ==
  \E r, q \in Requests :
    /\ status[r] = "done" /\ prompt[r] = [t |-> "string", v |-> ""]
    /\ Responded(r, 400)
    /\ status[q] = "done" /\ prompt[q] = [t |-> "undefined", v |-> ""]
    /\ Responded(q, 400)

WellFormed(p) == p.t = "string" /\ p.v # ""

\* C2: a request with a well-formed prompt whose upstream call succeeded made
\* exactly one outbound call (repeated prompts are not cached or
\* deduplicated) and was answered 200 { script: t }, t being exactly the
\* text the service returned.
C2_OneCallTextUnmodified ==
  \A r \in Requests :
    /\ (WellFormed(prompt[r]) /\ status[r] \in {"await_sendMessage", "await_response"})
         => Len(calls[r]) = 1 /\ responses[r] = <<>>
    /\ (WellFormed(prompt[r]) /\ status[r] = "done" /\ failed[r] = "none")
         => /\ Len(calls[r]) = 1
            /\ upstream[r] \in Texts
            /\ responses[r] = <<[status |-> 200, body |-> [script |-> upstream[r]]]>>

C2_Witness ==
  \E r, q \in Requests :
    /\ r # q
    /\ prompt[r] = prompt[q] /\ WellFormed(prompt[r])
    /\ status[r] = "done" /\ status[q] = "done"
    /\ Responded(r, 200) /\ Responded(q, 200)
    /\ responses[r][1].body.script = "  print(1);  "
    /\ Len(calls[r]) = 1 /\ Len(calls[q]) = 1

\* C3: when a step of the external call fails, the request is answered with
\* 500 { error: 'Failed to generate script' }, no second outbound call is
\* made for it, and the process keeps serving: every posted request can
\* still be handled.
C3_UpstreamFailure ==
  \A r \in Requests :
    failed[r] # "none"
    => /\ responses[r] = <<[status |-> 500, body |-> [error |-> "Failed to generate script"]]>>
       /\ status[r] = "done"
       /\ Len(calls[r]) <= 1
       /\ pc = "listening" /\ listenPort = 3000
       /\ \A q \in Requests : status[q] = "posted" => ENABLED GenerateHandler(q)

C3_Witness ==
  \E r, q \in Requests :
    /\ failed[r] = "sendMessage" /\ Responded(r, 500) /\ Len(calls[r]) = 1
    /\ r < q /\ status[q] = "done" /\ Responded(q, 200)

BadCredential == apiKey \in {"<unset>", ""}
BadFile ==
  kbFile \notin { <<"{", "}">>,
                  <<" ", "{", "\"World\"", " ", ":", "\"addDisc\"", "}", " ">> }

\* C4: whenever the process listens, the credential was present and the
\* knowledge-base file was read and parsed; with the credential absent, or
\* the file missing or malformed, the process ends during start-up at the
\* step that detects it and no request is ever accepted or handled.
C4_ListeningImpliesLoaded ==
  /\ pc \in {"listen", "listening"} \/ listenPort # 0
       => /\ ~BadCredential /\ ~BadFile
          /\ knowledgeBase # NoValue
          /\ knowledgeBase.kind = "object"
          /\ knowledgeBase = JSONParse(kbFile)
  /\ BadCredential => pc \in {"check_key", "terminated"}
  /\ BadFile => pc \in {"check_key", "construct_client", "load_kb", "terminated"}
  /\ (BadCredential \/ BadFile)
       => /\ listenPort = 0
          /\ \A r \in Requests : status[r] = "idle" /\ responses[r] = <<>> /\ calls[r] = <<>>

C4_Witness ==
  /\ pc = "terminated"
  /\ genAI # NoValue
  /\ kbFile = <<"{", "\"World\"", ":">>
  /\ knowledgeBase = NoValue

\* C5 (as claimed): started with the credential set and a valid
\* knowledge_base.json, the process does not end during start-up.
C5_StartupCompletes ==
  (~BadCredential /\ ~BadFile) => pc # "terminated"

\* every chunk of text one outbound call carries: the history turns, then
\* the message
RECURSIVE HistoryChunks(_)
HistoryChunks(h) ==
  IF h = <<>> THEN <<>> ELSE Head(h).text \o HistoryChunks(Tail(h))
PayloadChunks(c) == HistoryChunks(c.history) \o c.message

\* C6: of two requests with different prompts, handled in any interleaving,
\* the outbound payload of each carries its own prompt and never the
\* other's, and the script each caller receives is the text the service
\* produced for its own call.
C6_NoInterference ==
  /\ \A r, q \in Requests :
       (r # q /\ status[q] # "idle" /\ ToStr(prompt[r]) # ToStr(prompt[q]))
       => \A i \in 1..Len(calls[r]) :
            /\ Contains(PayloadChunks(calls[r][i]), ToStr(prompt[r]))
            /\ ~Contains(PayloadChunks(calls[r][i]), ToStr(prompt[q]))
  /\ \A r \in Requests :
       Responded(r, 200) => responses[r][1].body.script = upstream[r]

C6_Witness ==
  \E r, q \in Requests :
    /\ r < q
    /\ WellFormed(prompt[r]) /\ WellFormed(prompt[q]) /\ prompt[r] # prompt[q]
    /\ status[r] = "await_response" /\ Len(calls[r]) = 1
    /\ status[q] = "done" /\ Responded(q, 200) /\ Len(calls[q]) = 1
    /\ upstream[r] # upstream[q]

\* the serialized knowledge base occurs in the message, chunk for chunk
ContainsSeq(seq, sub) ==
  \E i \in 1..(Len(seq) - Len(sub) + 1) : SubSeq(seq, i, i + Len(sub) - 1) = sub

\* C7 (as claimed): the message passed to the send operation contains the
\* instruction template, the serialized knowledge base and the prompt.
C7_MessageHasAllThreeParts ==
  \A r \in Requests : \A i \in 1..Len(calls[r]) :
    /\ Contains(calls[r][i].message, systemPrompt)
    /\ ContainsSeq(calls[r][i].message, JSONStringify(JSONParse(kbFile)))
    /\ Contains(calls[r][i].message, ToStr(prompt[r]))

\* C7 (amended): every outbound call carries the three parts, in two places:
\* the instruction template is the single turn of the chat history, and the
\* message passed to the send operation holds the serialized knowledge base
\* followed by the prompt, and does not hold the instruction template.
C7_TemplateInHistory ==
  \A r \in Requests : \A i \in 1..Len(calls[r]) :
    LET c == calls[r][i]
        kb == JSONStringify(JSONParse(kbFile))
    IN /\ Len(c.history) = 1
       /\ c.history[1].role = "user"
       /\ c.history[1].text = <<systemPrompt>>
       /\ ~Contains(c.message, systemPrompt)
       /\ ContainsSeq(c.message, kb)
       /\ c.message[Len(c.message) - 1] = ToStr(prompt[r])
       /\ Len(c.message) = Len(kb) + 4
       /\ c.model = "gpt-4o"

C7_Witness ==
  \E r \in Requests :
    /\ Len(calls[r]) = 1
    /\ prompt[r] = [t |-> "string", v |-> "a ball falling under gravity"]
    /\ kbFile = <<" ", "{", "\"World\"", " ", ":", "\"addDisc\"", "}", " ">>
    /\ Contains(calls[r][1].message, "\"addDisc\"")
    /\ status[r] = "done"

\* C8: once the process listens, no step changes the knowledge base, the
\* client or the serving state, and the knowledge base every request sees
\* is the value parsed from the file at start-up.
C8_SharedStateUnchanged ==
  /\ [](pc = "listening" => knowledgeBase = JSONParse(kbFile) /\ genAI.kind = "client")
  /\ [][pc = "listening" =>
          /\ knowledgeBase' = knowledgeBase
          /\ genAI' = genAI
          /\ pc' = pc
          /\ listenPort' = listenPort]_vars

C8_Witness ==
  \E r, q \in Requests :
    /\ Responded(r, 400) /\ status[q] = "done" /\ failed[q] = "text"
    /\ Len(calls[q]) = 1
    /\ knowledgeBase = [kind |-> "object", members |-> <<"\"World\"", "\"addDisc\"">>]

\* C9 (as claimed): an outbound call is made only for a prompt that is a
\* non-empty string; any other value is rejected with 400 and no call.
C9_OnlyNonEmptyStrings ==
  \A r \in Requests :
    /\ calls[r] # <<>> => (prompt[r].t = "string" /\ prompt[r].v # "")
    /\ (status[r] = "done" /\ ~(prompt[r].t = "string" /\ prompt[r].v # ""))
         => Responded(r, 400) /\ calls[r] = <<>>

Outcomes ==
  { [status |-> 400, body |-> [error |-> "Prompt is required"]],
    [status |-> 500, body |-> [error |-> "Failed to generate script"]] }
  \cup { [status |-> 200, body |-> [script |-> t]] : t \in Texts }

====
